---- MODULE Spec2Model ----
(***************************************************************************)
(* Model of the RAG-vs-LLM learning backend (backend/app/main.py and       *)
(* backend/app/db.py): the chunker, the /rag/store request, the            *)
(* /rag/{id} delete, the /chat/query and /chat/route requests, and the     *)
(* lazily created MongoDB client of get_collection.                        *)
(*                                                                         *)
(* A Python str is a sequence of one-character strings.                    *)
(***************************************************************************)
EXTENDS Integers, Sequences, FiniteSets, TLC

\* ------------------------------------------------------------------------
\* Bounds of the model
\* ------------------------------------------------------------------------
MaxLen == 7        \* longest text handed to a direct chunk_text call
MaxChars == 5      \* largest max_chars handed to a direct chunk_text call
MaxReqs == 2       \* number of concurrent /rag/store requests
MaxBlankLen == 2   \* longest whitespace-only request text
MaxDocs == 2       \* documents that earlier runs left in the collection
MaxScore == 1      \* similarity scores and thresholds are k / MaxScore, k \in 0..MaxScore
MaxChats == 1      \* number of chat requests
NThreads == 2      \* threads that call get_collection concurrently

\* Program constants
DefaultMaxChars == 1500   \* chunk_text(text, max_chars=1500)
SearchLimit == 3          \* build_rag_context(collection, question_vector, limit=3)
OidHexLen == 24           \* ObjectId(document_id) takes 24 hexadecimal digits
NoClient == 0             \* _client = None

\* ------------------------------------------------------------------------
\* Strings
\* ------------------------------------------------------------------------
NL == "\n"
Whitespace == {" ", NL}
Alphabet == {"a", "b", " ", NL}
ParaSep == <<NL, NL>>

RECURSIVE TextsOfLen(_)
TextsOfLen(n) ==
    IF n = 0 THEN {<<>>}
    ELSE {Append(t, c) : t \in TextsOfLen(n - 1), c \in Alphabet}

Texts(n) == UNION {TextsOfLen(k) : k \in 0..n}

\* str.strip(): drop leading and trailing whitespace.
RECURSIVE lstrip(_)
lstrip(s) == IF s # <<>> /\ Head(s) \in Whitespace THEN lstrip(Tail(s)) ELSE s

RECURSIVE rstrip(_)
rstrip(s) ==
    IF s # <<>> /\ s[Len(s)] \in Whitespace
    THEN rstrip(SubSeq(s, 1, Len(s) - 1))
    ELSE s

strip(s) == rstrip(lstrip(s))

\* str.find("\n\n"): index of the first occurrence, 0 when there is none.
find(s) ==
    LET hits == {j \in 1..(Len(s) - 1) : s[j] = NL /\ s[j + 1] = NL}
    IN  IF hits = {} THEN 0 ELSE CHOOSE j \in hits : \A k \in hits : j <= k

\* str.split("\n\n"): cut at each occurrence, scanning left to right; the
\* pieces may be empty and there is always at least one piece.
RECURSIVE split(_)
split(s) ==
    LET j == find(s)
    IN  IF j = 0 THEN <<s>>
        ELSE <<SubSeq(s, 1, j - 1)>> \o split(SubSeq(s, j + 2, Len(s)))

\* [p.strip() for p in pieces if p.strip()]
RECURSIVE strip_nonempty(_)
strip_nonempty(pieces) ==
    IF pieces = <<>> THEN <<>>
    ELSE LET p == strip(Head(pieces))
         IN  IF p # <<>> THEN <<p>> \o strip_nonempty(Tail(pieces))
             ELSE strip_nonempty(Tail(pieces))

paragraphs_of(text) == strip_nonempty(split(text))

\* ------------------------------------------------------------------------
\* chunk_text
\* ------------------------------------------------------------------------
\* chunk_loop with the bug of starting the new chunk without emitting the
\* running one.
RECURSIVE chunk_loop_drop(_, _, _, _)
chunk_loop_drop(paragraphs, chunks, current, max_chars) ==
    IF paragraphs = <<>>
    THEN IF current # <<>> THEN Append(chunks, current) ELSE chunks
    ELSE LET p == Head(paragraphs)
         IN  IF Len(current) + Len(p) > max_chars
             THEN chunk_loop_drop(Tail(paragraphs), chunks, p, max_chars)
             ELSE chunk_loop_drop(Tail(paragraphs), chunks,
                                  IF current = <<>> THEN p ELSE current \o ParaSep \o p,
                                  max_chars)

\* The for loop of chunk_text, followed by the final "if current".
RECURSIVE chunk_loop(_, _, _, _)
chunk_loop(paragraphs, chunks, current, max_chars) ==
    IF paragraphs = <<>>
    THEN IF current # <<>> THEN Append(chunks, current) ELSE chunks
    ELSE LET p == Head(paragraphs)
         IN  IF Len(current) + Len(p) > max_chars
             THEN chunk_loop(Tail(paragraphs),
                             IF current # <<>> THEN Append(chunks, current) ELSE chunks,
                             p, max_chars)
             ELSE chunk_loop(Tail(paragraphs), chunks,
                             IF current = <<>> THEN p ELSE current \o ParaSep \o p,
                             max_chars)

chunk_text(text, max_chars) == chunk_loop(paragraphs_of(text), <<>>, <<>>, max_chars)

\* ------------------------------------------------------------------------
\* State
\* ------------------------------------------------------------------------
VARIABLES
    in_text,      \* argument text of a direct chunk_text call
    in_max,       \* argument max_chars of that call
    out_chunks,   \* its return value
    cpc,          \* "call" before the call, "done" after it
    store,        \* the documents of the MongoDB collection
    nextOid,      \* number of ObjectIds generated so far
    sreq,         \* the /rag/store requests, one record per request
    dresp,        \* the last DELETE /rag/{document_id} request and its answer
    cresp,        \* the last /chat/query or /chat/route request and its answer
    nchat,        \* number of chat requests handled
    _client,      \* db._client: NoClient, or the number of the MongoClient
    created,      \* number of MongoClient objects constructed
    gpc,          \* per thread: position inside get_collection
    gtmp,         \* per thread: the MongoClient it constructed, not yet assigned
    gcoll         \* per thread: the client behind the collection last returned

vars == <<in_text, in_max, out_chunks, cpc, store, nextOid, sreq, dresp, cresp,
          nchat, _client, created, gpc, gtmp, gcoll>>

chunkVars == <<in_text, in_max, out_chunks, cpc>>
dbVars == <<store, nextOid>>
connVars == <<_client, created>>
gcVars == <<gpc, gtmp, gcoll>>
chatVars == <<cresp, nchat>>

\* ------------------------------------------------------------------------
\* get_collection (MONGODB_URI is set)
\* ------------------------------------------------------------------------
Threads == 1..NThreads

\* "if _client is None": the thread reads the global.
GCTest(t) ==
    /\ gpc[t] = "idle"
    /\ gpc' = [gpc EXCEPT ![t] = IF _client = NoClient THEN "construct" ELSE "return"]
    /\ UNCHANGED <<chunkVars, dbVars, sreq, dresp, chatVars, connVars, gtmp, gcoll>>

\* MongoClient(MONGODB_URI) is evaluated.
GCConstruct(t) ==
    /\ gpc[t] = "construct"
    /\ created' = created + 1
    /\ gtmp' = [gtmp EXCEPT ![t] = created + 1]
    /\ gpc' = [gpc EXCEPT ![t] = "assign"]
    /\ UNCHANGED <<chunkVars, dbVars, sreq, dresp, chatVars, _client, gcoll>>

\* "_client = ..." stores the new client in the global.
GCAssign(t) ==
    /\ gpc[t] = "assign"
    /\ _client' = gtmp[t]
    /\ gpc' = [gpc EXCEPT ![t] = "return"]
    /\ UNCHANGED <<chunkVars, dbVars, sreq, dresp, chatVars, created, gtmp, gcoll>>

\* "return _client[MONGODB_DB][MONGODB_COLLECTION]" reads the global again.
GCReturn(t) ==
    /\ gpc[t] = "return"
    /\ gcoll' = [gcoll EXCEPT ![t] = _client]
    /\ gpc' = [gpc EXCEPT ![t] = "idle"]
    /\ UNCHANGED <<chunkVars, dbVars, sreq, dresp, chatVars, connVars, gtmp>>

\* get_collection run by a handler without another thread in between.
get_collection ==
    /\ _client' = IF _client = NoClient THEN created + 1 ELSE _client
    /\ created' = IF _client = NoClient THEN created + 1 ELSE created

\* ------------------------------------------------------------------------
\* A direct call of chunk_text
\* ------------------------------------------------------------------------
ChunkText ==
    /\ cpc = "call"
    /\ out_chunks' = chunk_text(in_text, in_max)
    /\ cpc' = "done"
    /\ UNCHANGED <<in_text, in_max, dbVars, sreq, dresp, chatVars, connVars, gcVars>>

\* ------------------------------------------------------------------------
\* Documents
\* ------------------------------------------------------------------------
\* The document store_rag_knowledge builds for a chunk. entity, slot,
\* knowledge_type and created_at are copied or stamped and never read back by
\* the operations modelled here. req names the request that inserted it.
RagDocument(oid, chunk, idx, r) ==
    [_id |-> oid, type |-> "rag_document", text |-> chunk, chunk_index |-> idx,
     embedding |-> "vector", req |-> r]

\* The entry log_chat builds; "route" is set only when a route is given.
ChatLog(oid, question, answer, retrieved_documents, route) ==
    IF route # "none"
    THEN [_id |-> oid, type |-> "chat_log", question |-> question, answer |-> answer,
          retrieved_documents |-> retrieved_documents, route |-> route]
    ELSE [_id |-> oid, type |-> "chat_log", question |-> question, answer |-> answer,
          retrieved_documents |-> retrieved_documents]

Para(c, n) == [i \in 1..n |-> c]

Question == <<"q">>
Answer == "completion.choices[0].message.content"

\* ------------------------------------------------------------------------
\* POST /rag/store
\* ------------------------------------------------------------------------
Reqs == 1..MaxReqs

\* Texts that consist of whitespace only (the empty text included).
BlankTexts == {t \in Texts(MaxBlankLen) : \A i \in 1..Len(t) : t[i] \in Whitespace}

\* Request bodies: the empty text, a blank text, a short text, and texts whose
\* paragraphs are long enough for the default max_chars to separate them.
StoreTexts ==
    { <<>>,
      <<" ">>,
      <<"a">>,
      <<"a">> \o ParaSep \o <<"b">>,
      Para("a", 751) \o ParaSep \o Para("b", 751) \o ParaSep \o Para("c", 751) }

IdleReq ==
    [pc |-> "idle", text |-> <<>>, chunks |-> <<>>, idx |-> 0,
     embed_calls |-> 0, status |-> 0, detail |-> [msg |-> ""]]

\* RagStoreRequest: text has min_length=1; a body that fails validation is
\* answered 422 and the handler does not run.
ValidStoreRequest(text) == Len(text) >= 1

\* StoreBegin with the bug of leaving out the "if not chunks" check: the loop
\* over no chunks does nothing and the handler reports success.
StoreBeginUnchecked(r, text) ==
    /\ sreq[r].pc = "idle"
    /\ IF ~ValidStoreRequest(text)
       THEN /\ sreq' = [sreq EXCEPT ![r] =
                  [@ EXCEPT !.pc = "done", !.text = text, !.status = 422,
                            !.detail = [msg |-> "string_too_short"]]]
            /\ UNCHANGED connVars
       ELSE /\ get_collection
            /\ LET chunks == chunk_text(text, DefaultMaxChars)
               IN  sreq' = [sreq EXCEPT ![r] =
                     IF chunks = <<>>
                     THEN [@ EXCEPT !.pc = "done", !.text = text, !.chunks = chunks,
                                    !.status = 200,
                                    !.detail = [msg |-> "Knowledge stored successfully",
                                                chunks |-> 0]]
                     ELSE [@ EXCEPT !.pc = "embed", !.text = text, !.chunks = chunks,
                                    !.idx = 0]]
    /\ UNCHANGED <<chunkVars, dbVars, dresp, chatVars, gcVars>>

\* Request r arrives with body text: validation, get_collection, chunk_text
\* and the "if not chunks" check.
StoreBegin(r, text) ==
    /\ sreq[r].pc = "idle"
    /\ IF ~ValidStoreRequest(text)
       THEN /\ sreq' = [sreq EXCEPT ![r] =
                  [@ EXCEPT !.pc = "done", !.text = text, !.status = 422,
                            !.detail = [msg |-> "string_too_short"]]]
            /\ UNCHANGED connVars
       ELSE /\ get_collection
            /\ LET chunks == chunk_text(text, DefaultMaxChars)
               IN  sreq' = [sreq EXCEPT ![r] =
                     IF chunks = <<>>
                     THEN [@ EXCEPT !.pc = "done", !.text = text, !.chunks = chunks,
                                    !.status = 400,
                                    !.detail = [msg |-> "No valid text chunks to store."]]
                     ELSE [@ EXCEPT !.pc = "embed", !.text = text, !.chunks = chunks,
                                    !.idx = 0]]
    /\ UNCHANGED <<chunkVars, dbVars, dresp, chatVars, gcVars>>

\* client.embeddings.create(input=chunk) returns.
StoreEmbedOk(r) ==
    /\ sreq[r].pc = "embed"
    /\ sreq' = [sreq EXCEPT ![r] =
          [@ EXCEPT !.pc = "insert", !.embed_calls = @ + 1]]
    /\ UNCHANGED <<chunkVars, dbVars, dresp, chatVars, connVars, gcVars>>

\* StoreEmbedFail with the bug of swallowing the exception and going on to
\* the next chunk.
StoreEmbedSkip(r) ==
    /\ sreq[r].pc = "embed"
    /\ sreq' = [sreq EXCEPT ![r] =
          IF sreq[r].idx + 1 = Len(sreq[r].chunks)
          THEN [@ EXCEPT !.pc = "done", !.embed_calls = @ + 1, !.idx = @ + 1,
                         !.status = 200,
                         !.detail = [msg |-> "Knowledge stored successfully",
                                     chunks |-> Len(sreq[r].chunks)]]
          ELSE [@ EXCEPT !.pc = "embed", !.embed_calls = @ + 1, !.idx = @ + 1]]
    /\ UNCHANGED <<chunkVars, dbVars, dresp, chatVars, connVars, gcVars>>

\* client.embeddings.create(input=chunk) raises: HTTPException 502.
StoreEmbedFail(r) ==
    /\ sreq[r].pc = "embed"
    /\ sreq' = [sreq EXCEPT ![r] =
          [@ EXCEPT !.pc = "done", !.embed_calls = @ + 1, !.status = 502,
                    !.detail = [msg |-> "Embedding failed on chunk",
                                chunk |-> sreq[r].idx]]]
    /\ UNCHANGED <<chunkVars, dbVars, dresp, chatVars, connVars, gcVars>>

\* store_rag_document(collection, document) returns; the loop goes on to the
\* next chunk, or the handler returns its message after the last one.
StoreInsertOk(r) ==
    /\ sreq[r].pc = "insert"
    /\ nextOid' = nextOid + 1
    /\ store' = store \cup
          {RagDocument(nextOid + 1, sreq[r].chunks[sreq[r].idx + 1], sreq[r].idx, r)}
    /\ sreq' = [sreq EXCEPT ![r] =
          IF sreq[r].idx + 1 = Len(sreq[r].chunks)
          THEN [@ EXCEPT !.pc = "done", !.idx = @ + 1, !.status = 200,
                         !.detail = [msg |-> "Knowledge stored successfully",
                                     chunks |-> Len(sreq[r].chunks)]]
          ELSE [@ EXCEPT !.pc = "embed", !.idx = @ + 1]]
    /\ UNCHANGED <<chunkVars, dresp, chatVars, connVars, gcVars>>

\* collection.insert_one raises inside store_rag_document: nothing catches
\* it, the exception leaves the handler and the request is answered 500.
StoreInsertFail(r) ==
    /\ sreq[r].pc = "insert"
    /\ sreq' = [sreq EXCEPT ![r] =
          [@ EXCEPT !.pc = "done", !.status = 500,
                    !.detail = [msg |-> "Internal Server Error"]]]
    /\ UNCHANGED <<chunkVars, dbVars, dresp, chatVars, connVars, gcVars>>

\* ------------------------------------------------------------------------
\* DELETE /rag/{document_id}
\* ------------------------------------------------------------------------
HexLower == <<"0", "1", "2", "3", "4", "5", "6", "7", "8", "9",
              "a", "b", "c", "d", "e", "f">>
HexUpper == <<"0", "1", "2", "3", "4", "5", "6", "7", "8", "9",
              "A", "B", "C", "D", "E", "F">>

IsHex(c) == \E v \in 1..16 : HexLower[v] = c \/ HexUpper[v] = c
HexVal(c) == (CHOOSE v \in 1..16 : HexLower[v] = c \/ HexUpper[v] = c) - 1

RECURSIVE HexOf(_, _)
HexOf(n, width) ==
    IF width = 0 THEN <<>>
    ELSE Append(HexOf(n \div 16, width - 1), HexLower[(n % 16) + 1])

\* str(ObjectId): the hexadecimal digits of the id.
oid_str(n) == HexOf(n, OidHexLen)

RECURSIVE HexNumber(_)
HexNumber(s) ==
    IF s = <<>> THEN 0
    ELSE 16 * HexNumber(SubSeq(s, 1, Len(s) - 1)) + HexVal(s[Len(s)])

\* ObjectId(document_id): raises InvalidId (ok = FALSE) unless the string is
\* OidHexLen hexadecimal digits.
ObjectId(s) ==
    IF Len(s) = OidHexLen /\ \A i \in 1..Len(s) : IsHex(s[i])
    THEN [ok |-> TRUE, oid |-> HexNumber(s)]
    ELSE [ok |-> FALSE]

\* delete_rag_document with the bug of filtering on _id alone.
delete_any_document(st, document_id) ==
    LET parsed == ObjectId(document_id)
    IN  IF ~parsed.ok
        THEN [store |-> st, issued |-> FALSE, deleted |-> FALSE]
        ELSE LET hit == {d \in st : d._id = parsed.oid}
             IN  IF hit = {}
                 THEN [store |-> st, issued |-> TRUE, deleted |-> FALSE]
                 ELSE [store |-> st \ {CHOOSE d \in hit : TRUE},
                       issued |-> TRUE, deleted |-> TRUE]

\* delete_rag_document(collection, document_id) on the collection contents st:
\* the contents afterwards, whether delete_one was issued, and the result.
delete_rag_document(st, document_id) ==
    LET parsed == ObjectId(document_id)
    IN  IF ~parsed.ok
        THEN [store |-> st, issued |-> FALSE, deleted |-> FALSE]
        ELSE LET hit == {d \in st : d._id = parsed.oid /\ d.type = "rag_document"}
             IN  IF hit = {}
                 THEN [store |-> st, issued |-> TRUE, deleted |-> FALSE]
                 ELSE [store |-> st \ {CHOOSE d \in hit : TRUE},
                       issued |-> TRUE, deleted |-> TRUE]

\* The ids a delete request may carry: the ids of documents that exist or
\* may come to exist, and strings that are no ObjectId.
MalformedIds ==
    { <<>>,
      <<"x">>,
      SubSeq(oid_str(1), 1, OidHexLen - 1),
      Append(oid_str(1), "0"),
      [oid_str(1) EXCEPT ![1] = "g"] }

DocumentIds == {oid_str(n) : n \in 1..(MaxDocs + 3)} \cup MalformedIds

\* delete_rag_knowledge(document_id)
Delete(document_id) ==
    /\ get_collection
    /\ LET res == delete_rag_document(store, document_id)
       IN  /\ store' = res.store
           /\ dresp' = [document_id |-> document_id, issued |-> res.issued,
                        deleted |-> res.deleted,
                        status |-> IF res.deleted THEN 200 ELSE 404]
    /\ UNCHANGED <<chunkVars, nextOid, sreq, chatVars, gcVars>>

\* ------------------------------------------------------------------------
\* POST /chat/query and POST /chat/route
\* ------------------------------------------------------------------------
\* A score or threshold k stands for the float k / MaxScore of [0, 1].
Scores == 0..MaxScore
Thresholds == 0..MaxScore

Min(a, b) == IF a <= b THEN a ELSE b

\* The documents $vectorSearch can return: those with an "embedding" path.
Indexed(st) == {d \in st : "embedding" \in DOMAIN d}

\* build_rag_context(collection, query_vector, limit): what the aggregation
\* may return on the contents st. The search is the store's: it returns at
\* most limit documents that have an embedding, each once, best score first,
\* projected to text and score. Which documents and which scores is its choice.
build_rag_context(st, limit) ==
    UNION { { [i \in 1..n |-> [text |-> m[i][1].text, score |-> m[i][2]]] :
              m \in { f \in [1..n -> Indexed(st) \X Scores] :
                        /\ \A i, j \in 1..n : i # j => f[i][1] # f[j][1]
                        /\ \A i \in 1..(n - 1) : f[i][2] >= f[i + 1][2] } } :
            n \in 0..Min(limit, Cardinality(Indexed(st))) }

\* A prompt is the sequence of its pieces, which "\n" joins: fixed lines, one
\* bullet "- {text}" per match, and the raw question.
Lit(line) == [lit |-> line]
Bullet(text) == [bullet |-> text]
Raw(text) == [raw |-> text]

\* context_text with the bug of listing the matches last to first.
context_text_reversed(retrieved) ==
    IF retrieved = <<>> THEN <<Lit("")>>
    ELSE [i \in 1..Len(retrieved) |-> Bullet(retrieved[Len(retrieved) + 1 - i].text)]

\* "\n".join([f"- {doc['text']}" for doc in retrieved]): the bullets, or the
\* empty string when nothing was retrieved.
context_text(retrieved) ==
    IF retrieved = <<>> THEN <<Lit("")>>
    ELSE [i \in 1..Len(retrieved) |-> Bullet(retrieved[i].text)]

QuestionPart(question) ==
    <<Lit("Question:"), Raw(question), Lit(""),
      Lit("Answer in Korean to match the learning UI.")>>

\* The user_prompt with the context block.
rag_prompt(question, retrieved) ==
    <<Lit("Context:")>> \o context_text(retrieved) \o <<Lit("")>> \o QuestionPart(question)

\* The user_prompt of the else branch of chat_route.
llm_prompt(question) == QuestionPart(question)

\* top_score with the bug of defaulting to the best score, 1.0.
top_score_default_one(retrieved) ==
    IF retrieved # <<>> THEN retrieved[1].score ELSE MaxScore

\* top_score = retrieved[0]["score"] if retrieved else 0.0
top_score(retrieved) == IF retrieved # <<>> THEN retrieved[1].score ELSE 0

\* use_rag with the bug of a strict comparison.
use_rag_strict(score, threshold) == score > threshold

\* use_rag = top_score >= payload.threshold
use_rag(score, threshold) == score >= threshold

ChatOutcomes == {"ok", "embedding_failed", "store_failed", "completion_failed"}

\* The answer to a chat request that does not complete. An embedding failure
\* comes before get_collection; a failure of the aggregation or of the log
\* insert is not caught and is answered 500.
ChatFailure(op, question, outcome) ==
    /\ outcome # "ok"
    /\ cresp' = [op |-> op, question |-> question,
                 status |-> IF outcome = "store_failed" THEN 500 ELSE 502,
                 detail |-> CASE outcome = "embedding_failed" -> "Embedding failed"
                              [] outcome = "completion_failed" -> "Chat completion failed"
                              [] OTHER -> "Internal Server Error"]
    /\ IF outcome = "embedding_failed" THEN UNCHANGED connVars ELSE get_collection
    /\ UNCHANGED dbVars

\* chat_query(payload)
ChatQuery(question, outcome) ==
    /\ nchat < MaxChats
    /\ nchat' = nchat + 1
    /\ \/ ChatFailure("query", question, outcome)
       \/ /\ outcome = "ok"
          /\ get_collection
          /\ \E retrieved \in build_rag_context(store, SearchLimit) :
               LET user_prompt == rag_prompt(question, retrieved)
               IN  /\ store' = store \cup
                         {ChatLog(nextOid + 1, question, Answer, retrieved, "none")}
                   /\ nextOid' = nextOid + 1
                   /\ cresp' = [op |-> "query", question |-> question, status |-> 200,
                                retrieved |-> retrieved, context |-> retrieved,
                                user_prompt |-> user_prompt,
                                answer |-> Answer, retrieved_documents |-> retrieved,
                                log_id |-> nextOid + 1]
    /\ UNCHANGED <<chunkVars, sreq, dresp, gcVars>>

\* chat_route(payload)
ChatRoute(question, threshold, outcome) ==
    /\ nchat < MaxChats
    /\ nchat' = nchat + 1
    /\ \/ ChatFailure("route", question, outcome)
       \/ /\ outcome = "ok"
          /\ get_collection
          /\ \E retrieved \in build_rag_context(store, SearchLimit) :
               LET rag == use_rag(top_score(retrieved), threshold)
                   route == IF rag THEN "rag" ELSE "llm"
                   user_prompt == IF rag THEN rag_prompt(question, retrieved)
                                  ELSE llm_prompt(question)
                   context == IF rag THEN retrieved ELSE <<>>
               IN  /\ store' = store \cup
                         {ChatLog(nextOid + 1, question, Answer, context, route)}
                   /\ nextOid' = nextOid + 1
                   /\ cresp' = [op |-> "route", question |-> question, status |-> 200,
                                threshold |-> threshold,
                                retrieved |-> retrieved, context |-> context,
                                user_prompt |-> user_prompt,
                                answer |-> Answer, retrieved_documents |-> context,
                                route |-> route, log_id |-> nextOid + 1]
    /\ UNCHANGED <<chunkVars, sreq, dresp, gcVars>>

\* ------------------------------------------------------------------------
\* Initial conditions
\* ------------------------------------------------------------------------
ChunkIdle ==
    /\ in_text = <<>>
    /\ in_max = 0
    /\ out_chunks = <<>>
    /\ cpc = "done"

InitRequests ==
    /\ sreq = [r \in Reqs |-> IdleReq]
    /\ dresp = [status |-> 0]
    /\ cresp = [op |-> "none", status |-> 0]
    /\ nchat = 0

InitConn ==
    /\ _client = NoClient
    /\ created = 0
    /\ gpc = [t \in Threads |-> "idle"]
    /\ gtmp = [t \in Threads |-> NoClient]
    /\ gcoll = [t \in Threads |-> NoClient]

\* A collection that starts empty.
InitEmptyDb ==
    /\ store = {}
    /\ nextOid = 0

\* A collection that earlier runs of the server have written to: documents of
\* single-chunk store requests (some since deleted) and the log of a routed
\* chat that used no context.
PriorRagDocs == {RagDocument(i, Para("a", i), 0, 0) : i \in 1..MaxDocs}
PriorChatLog == ChatLog(MaxDocs + 1, Question, Answer, <<>>, "llm")
PriorStores ==
    {docs \cup logs : docs \in SUBSET PriorRagDocs, logs \in SUBSET {PriorChatLog}}

InitPriorDb ==
    /\ store \in PriorStores
    /\ nextOid = MaxDocs + 1

\* ------------------------------------------------------------------------
\* Specifications
\* ------------------------------------------------------------------------
\* Direct calls of chunk_text.
InitChunk ==
    /\ in_text \in Texts(MaxLen)
    /\ in_max \in 0..MaxChars
    /\ out_chunks = <<>>
    /\ cpc = "call"
    /\ InitEmptyDb
    /\ InitRequests
    /\ InitConn

NextChunk == ChunkText

SpecChunk == InitChunk /\ [][NextChunk]_vars

\* Concurrent /rag/store requests on an empty collection.
InitStore ==
    /\ ChunkIdle
    /\ InitEmptyDb
    /\ InitRequests
    /\ InitConn

NextStore ==
    \E r \in Reqs :
        \/ \E text \in StoreTexts : StoreBegin(r, text)
        \/ StoreEmbedOk(r)
        \/ StoreEmbedFail(r)
        \/ StoreInsertOk(r)
        \/ StoreInsertFail(r)

SpecStore == InitStore /\ [][NextStore]_vars

\* Delete requests, next to one /rag/store request, on a collection with history.
InitDelete ==
    /\ ChunkIdle
    /\ InitPriorDb
    /\ InitRequests
    /\ InitConn

NextDelete ==
    \/ \E document_id \in DocumentIds : Delete(document_id)
    \/ \E r \in {1} :
        \/ StoreBegin(r, <<"b">>)
        \/ StoreEmbedOk(r)
        \/ StoreEmbedFail(r)
        \/ StoreInsertOk(r)
        \/ StoreInsertFail(r)

SpecDelete == InitDelete /\ [][NextDelete]_vars

\* Threads inside get_collection.
InitGetCollection ==
    /\ ChunkIdle
    /\ InitEmptyDb
    /\ InitRequests
    /\ InitConn

NextGetCollection ==
    \E t \in Threads : GCTest(t) \/ GCConstruct(t) \/ GCAssign(t) \/ GCReturn(t)

SpecGetCollection == InitGetCollection /\ [][NextGetCollection]_vars

\* Chat requests on a collection with history.
InitChat ==
    /\ ChunkIdle
    /\ InitPriorDb
    /\ InitRequests
    /\ InitConn

NextChat ==
    \E outcome \in ChatOutcomes :
        \/ ChatQuery(Question, outcome)
        \/ \E threshold \in Thresholds : ChatRoute(Question, threshold, outcome)

SpecChat == InitChat /\ [][NextChat]_vars

\* Direct calls of chunk_text on blank texts, next to /rag/store requests with
\* blank bodies and with one body that has a chunk.
InitBlank ==
    /\ in_text \in BlankTexts
    /\ in_max \in 0..MaxChars
    /\ out_chunks = <<>>
    /\ cpc = "call"
    /\ InitEmptyDb
    /\ InitRequests
    /\ InitConn

NextBlank ==
    \/ ChunkText
    \/ \E r \in Reqs :
        \/ \E text \in BlankTexts \cup {<<"a">>} : StoreBegin(r, text)
        \/ StoreEmbedOk(r)
        \/ StoreEmbedFail(r)
        \/ StoreInsertOk(r)
        \/ StoreInsertFail(r)

SpecBlank == InitBlank /\ [][NextBlank]_vars

\* ------------------------------------------------------------------------
\* Properties
\* ------------------------------------------------------------------------
IsBlank(t) == \A i \in 1..Len(t) : t[i] \in Whitespace

RECURSIVE Flatten(_)
Flatten(seqs) == IF seqs = <<>> THEN <<>> ELSE Head(seqs) \o Flatten(Tail(seqs))

\* The paragraphs of each chunk, chunk after chunk.
ParagraphsOfChunks(chunks) == Flatten([i \in 1..Len(chunks) |-> split(chunks[i])])

\* C1: every chunk chunk_text returns is at most max_chars long, separators
\* included, unless it is a single paragraph.
C1_ChunkWithinMaxChars ==
    cpc = "done" =>
        \A i \in 1..Len(out_chunks) :
            \/ Len(out_chunks[i]) <= in_max
            \/ Len(split(out_chunks[i])) = 1

\* C7: the paragraphs of the chunks, in chunk order, are the trimmed non-empty
\* paragraphs of the text, each once, whole and in order.
C7_ChunksKeepParagraphs ==
    cpc = "done" => ParagraphsOfChunks(out_chunks) = paragraphs_of(in_text)

C7_Witness ==
    /\ cpc = "done"
    /\ Len(out_chunks) >= 2
    /\ \E i \in 1..Len(out_chunks) : Len(split(out_chunks[i])) >= 2

\* The documents request r has inserted.
DocsOf(r) == {d \in store : d.type = "rag_document" /\ d.req = r}

C6_FailureNamesStageAndChunk ==
    \A r \in DOMAIN sreq :
        (sreq[r].pc = "done" /\ sreq[r].status \in {500, 502}
                             /\ Len(sreq[r].chunks) >= 2) =>
            /\ "chunk" \in DOMAIN sreq[r].detail
            /\ sreq[r].detail.chunk = sreq[r].idx
            /\ sreq[r].detail.msg \in {"Embedding failed on chunk",
                                       "Insert failed on chunk"}

\* What holds of every blank text, whatever the answer to the request is.
BlankTextStoresNothing ==
    /\ (cpc = "done" /\ IsBlank(in_text)) => out_chunks = <<>>
    /\ \A r \in DOMAIN sreq :
           (sreq[r].pc = "done" /\ IsBlank(sreq[r].text)) =>
               /\ sreq[r].chunks = <<>>
               /\ sreq[r].embed_calls = 0
               /\ DocsOf(r) = {}

\* C8 as stated: chunk_text returns no chunk for a blank text, and a store
\* request with a blank text (the empty text included) is answered "No valid
\* text chunks to store." without an embedding call or an insert.
C8_BlankRequestNoValidChunks ==
    /\ BlankTextStoresNothing
    /\ \A r \in DOMAIN sreq :
           (sreq[r].pc = "done" /\ IsBlank(sreq[r].text)) =>
               /\ sreq[r].status = 400
               /\ sreq[r].detail.msg = "No valid text chunks to store."

\* C8 as amended: the same, except that the empty text is turned away by the
\* request validation (422) before chunk_text is reached.
C8_BlankRequestRejected ==
    /\ BlankTextStoresNothing
    /\ \A r \in DOMAIN sreq :
           (sreq[r].pc = "done" /\ IsBlank(sreq[r].text)) =>
               IF sreq[r].text = <<>>
               THEN sreq[r].status = 422
               ELSE /\ sreq[r].status = 400
                    /\ sreq[r].detail.msg = "No valid text chunks to store."

C8_Witness ==
    /\ cpc = "done" /\ in_text # <<>> /\ IsBlank(in_text)
    /\ store # {}
    /\ \E r \in DOMAIN sreq :
           /\ sreq[r].pc = "done" /\ sreq[r].status = 400
           /\ sreq[r].text # <<>> /\ IsBlank(sreq[r].text)

\* C9: a delete with an id that is no ObjectId answers false, issues no
\* delete and leaves the collection as it is; any delete removes at most one
\* document, of type rag_document; no step removes a chat log.
C9_DeleteOnlyRagDocuments ==
    [][ /\ \A document_id \in DocumentIds :
              Delete(document_id) =>
                  /\ ~ObjectId(document_id).ok =>
                         /\ store' = store
                         /\ ~dresp'.issued
                         /\ ~dresp'.deleted
                         /\ dresp'.status = 404
                  /\ store' \subseteq store
                  /\ Cardinality(store \ store') <= 1
                  /\ \A d \in store \ store' : d.type = "rag_document"
                  /\ dresp'.deleted = (store' # store)
        /\ \A d \in store : d.type = "chat_log" => d \in store' ]_vars

C9_Witness ==
    /\ dresp.status = 404
    /\ ~ObjectId(dresp.document_id).ok
    /\ \E d \in store : d.type = "rag_document"
    /\ \E d \in store : d.type = "chat_log"

\* C10: at most one MongoClient is ever constructed, and every call of
\* get_collection returns a collection of that client.
C10_SingleClient ==
    /\ created <= 1
    /\ \A t1, t2 \in Threads :
           (gcoll[t1] # NoClient /\ gcoll[t2] # NoClient) => gcoll[t1] = gcoll[t2]

\* A completed routed chat.
Routed == cresp.op = "route" /\ cresp.status = 200
\* A completed chat of either kind.
Answered == cresp.op \in {"query", "route"} /\ cresp.status = 200

\* C2 as stated: a routed chat that retrieves nothing goes the "llm" way with
\* an empty context, whatever the threshold.
C2_NoMatchesRouteLlm ==
    (Routed /\ cresp.retrieved = <<>>) =>
        /\ cresp.route = "llm"
        /\ cresp.retrieved_documents = <<>>

\* C2 as amended: a routed chat that retrieves nothing has an empty context,
\* goes the "llm" way for every threshold above 0.0 and the "rag" way for the
\* threshold 0.0.
C2_NoMatchesRouteByThreshold ==
    (Routed /\ cresp.retrieved = <<>>) =>
        /\ cresp.retrieved_documents = <<>>
        /\ cresp.threshold > 0 => cresp.route = "llm"
        /\ cresp.threshold = 0 => cresp.route = "rag"

C2_Witness ==
    /\ Routed
    /\ Indexed(store) = {}
    /\ cresp.retrieved = <<>>
    /\ cresp.threshold > 0
    /\ cresp.route = "llm"

\* The pieces of a prompt that are bullets, in order.
BulletsOf(prompt) == SelectSeq(prompt, LAMBDA piece : "bullet" \in DOMAIN piece)

PositionsOf(prompt, piece) == {i \in 1..Len(prompt) : prompt[i] = piece}

\* The prompt has no "Context:" line and no bullet.
NoContextSection(prompt) ==
    /\ PositionsOf(prompt, Lit("Context:")) = {}
    /\ BulletsOf(prompt) = <<>>

\* The prompt starts with "Context:", lists the texts of matches as its
\* bullets, in order, and has all of them before "Question:".
ContextSectionLists(prompt, matches) ==
    /\ PositionsOf(prompt, Lit("Context:")) = {1}
    /\ BulletsOf(prompt) = [i \in 1..Len(matches) |-> Bullet(matches[i].text)]
    /\ \A i \in 1..Len(prompt) : \A j \in PositionsOf(prompt, Lit("Question:")) :
           "bullet" \in DOMAIN prompt[i] => (1 < i /\ i < j)

\* "Question:" appears once and the raw question follows it.
QuestionSection(prompt, question) ==
    \E j \in 1..(Len(prompt) - 1) :
        /\ PositionsOf(prompt, Lit("Question:")) = {j}
        /\ prompt[j + 1] = Raw(question)

\* C3 as stated: in chat_query and chat_route, an empty context gives a
\* prompt without a Context section, a non-empty one a prompt whose Context
\* section lists the matches in order before the Question section.
C3_ContextSectionIffContext ==
    Answered =>
        /\ QuestionSection(cresp.user_prompt, cresp.question)
        /\ cresp.context = <<>> => NoContextSection(cresp.user_prompt)
        /\ cresp.context # <<>> =>
               ContextSectionLists(cresp.user_prompt, cresp.context)

\* C3 as amended: the prompt has no Context section when chat_route goes the
\* "llm" way; when chat_route goes the "rag" way, and always in chat_query,
\* it has a Context section that lists what was retrieved, in order, before
\* the Question section, also when nothing was retrieved.
C3_ContextSectionIffRag ==
    Answered =>
        /\ QuestionSection(cresp.user_prompt, cresp.question)
        /\ IF cresp.op = "route" /\ cresp.route = "llm"
           THEN NoContextSection(cresp.user_prompt)
           ELSE ContextSectionLists(cresp.user_prompt, cresp.retrieved)

C3_Witness ==
    /\ Routed
    /\ cresp.route = "rag"
    /\ Len(cresp.retrieved) = 2
    /\ cresp.retrieved[1].text # cresp.retrieved[2].text

\* C4: chat_route goes the "rag" way with all matches as context exactly when
\* the score of the first match (0.0 without matches) is at least the
\* threshold, and the "llm" way with an empty context otherwise; the answer
\* and the chat log carry the same context and route, whatever the collection
\* already holds.
C4_RouteByTopScore ==
    Routed =>
        LET top == IF cresp.retrieved # <<>> THEN cresp.retrieved[1].score ELSE 0
        IN  /\ top >= cresp.threshold =>
                   /\ cresp.route = "rag"
                   /\ cresp.retrieved_documents = cresp.retrieved
            /\ top < cresp.threshold =>
                   /\ cresp.route = "llm"
                   /\ cresp.retrieved_documents = <<>>
            /\ \E log \in store :
                   /\ log._id = cresp.log_id
                   /\ log.type = "chat_log"
                   /\ log.question = cresp.question
                   /\ log.retrieved_documents = cresp.retrieved_documents
                   /\ log.route = cresp.route

C4_Witness ==
    /\ Routed
    /\ PriorChatLog \in store
    /\ Len(cresp.retrieved) = 2
    /\ cresp.threshold > 0
    /\ cresp.retrieved[1].score = cresp.threshold
    /\ cresp.route = "rag"

====
